---------------------------- MODULE Spec2Model ----------------------------
(***************************************************************************)
(* A model of chord-sorter.js, the Chordify userscript: purge() removes    *)
(* the chord blocks whose label is on the blocklist, sortChordBlocks()     *)
(* re-appends the remaining blocks in alphabetical order,                  *)
(* clickSummaryIfPresent() clicks the "Summary" toggle, and a mutation     *)
(* observer, a 50 ms debounce timer and a requestAnimationFrame loop       *)
(* re-apply them.                                                          *)
(*                                                                         *)
(* The DOM is a forest over the element objects Nodes: kids[n] is the      *)
(* ordered child list of n, Body (0) is document.body, and an element in   *)
(* no child list is the root of a detached subtree.  A string is a         *)
(* sequence of characters; the characters outside ASCII are named:         *)
(* "sub_m" U+2098, "flat" U+266D, "sharp" U+266F, "acute" U+0301 (the      *)
(* combining accent) and "Eacute" U+00C9.                                  *)
(***************************************************************************)
EXTENDS Integers, Sequences, FiniteSets

VARIABLES
    kind,         \* element -> "div" | "blk" | "view" | "span" | "svg" | "btn"
    text,         \* element -> the text of its own text node
    kids,         \* Body and elements -> ordered children
    readyState,   \* document.readyState when the script body runs
    pc,           \* "script": body not run yet; "loading": start waits for
                  \* DOMContentLoaded; "running": start has run
    sortPending,  \* _sortPending
    timers,       \* outstanding setTimeout(..., 50) callbacks
    records,      \* MutationRecords queued for the observer: [node, by]
    dt,           \* Date.now() - lastTick in ms: 0, or 2000 for any more
                  \* than 1500
    clicks,       \* element -> number of el.click() calls made by the script
    marked,       \* elements with dataset._clickedSummary set
    pageOps,      \* page tasks taken since the script body ran
    last          \* the last step: the handler run (op), the nodes the
                  \* observer was handed (nodes), the elements each call of
                  \* clickSummaryIfPresent clicked (calls), the elements
                  \* that left the document (removed), and what its call
                  \* of queueSort found (queue)

vars == <<kind, text, kids, readyState, pc, sortPending, timers, records,
          dt, clicks, marked, pageOps, last>>

-----------------------------------------------------------------------------
(* Bounds *)

\* Insertions one page task may make before the observer's microtask runs.
MaxBatch == 2

\* Page tasks (insertions and removals) after the script body has run.
MaxPageOps == 2

\* The polling period of tick, in ms.
TickPeriod == 1500

\* document.body, the root the observer and the document queries start from.
Body == 0

\* The element objects of the page.
Nodes == DOMAIN kind

\* null: no parent, no match.
Null == 0 - 1

-----------------------------------------------------------------------------
(* Strings *)

Range(s) == {s[i] : i \in 1 .. Len(s)}

IsSpace(c) == c = " "

\* String.prototype.trim
RECURSIVE TrimLeft(_)
TrimLeft(s) ==
    IF s # <<>> /\ IsSpace(Head(s)) THEN TrimLeft(Tail(s)) ELSE s

RECURSIVE TrimRight(_)
TrimRight(s) ==
    IF s # <<>> /\ IsSpace(s[Len(s)])
    THEN TrimRight(SubSeq(s, 1, Len(s) - 1))
    ELSE s

Trim(s) == TrimRight(TrimLeft(s))

\* String.prototype.normalize('NFC'): canonical composition, here of the one
\* decomposed pair the labels can hold, E + U+0301 -> U+00C9.
RECURSIVE NFC(_)
NFC(s) ==
    IF Len(s) >= 2 /\ s[1] = "E" /\ s[2] = "acute"
    THEN <<"Eacute">> \o NFC(SubSeq(s, 3, Len(s)))
    ELSE IF s = <<>> THEN <<>> ELSE <<Head(s)>> \o NFC(Tail(s))

normalize(s) == NFC(Trim(s))

Roots == {"A", "B", "C", "D", "E", "F", "G"}

blockedChordsList ==
    {<<r>> : r \in Roots} \cup {<<r, "sub_m">> : r \in Roots}
      \cup {<<r, "flat">> : r \in Roots}
      \cup {<<r, "flat", "sub_m">> : r \in Roots}

blockedChords == blockedChordsList

\* Lower case of a character, as /i and the collator see it.
Lower(c) ==
    CASE c = "A" -> "a" [] c = "B" -> "b" [] c = "C" -> "c" [] c = "D" -> "d"
      [] c = "E" -> "e" [] c = "F" -> "f" [] c = "G" -> "g" [] c = "M" -> "m"
      [] c = "R" -> "r" [] c = "S" -> "s" [] c = "U" -> "u" [] c = "Y" -> "y"
      [] OTHER -> c

LowerAll(s) == [i \in 1 .. Len(s) |-> Lower(s[i])]

\* /^summary$/i.test(txt)
IsSummaryText(txt) == LowerAll(txt) = <<"s", "u", "m", "m", "a", "r", "y">>

-----------------------------------------------------------------------------
(* The DOM.  Every operator takes the child lists k it reads, because purge *)
(* and sortChordBlocks change the tree while they walk it.                 *)

\* node.parentNode
Parent(k, n) ==
    IF \E p \in DOMAIN k : n \in Range(k[p])
    THEN CHOOSE p \in DOMAIN k : n \in Range(k[p])
    ELSE Null

\* The forest below the elements of s, in document order.
RECURSIVE Flat(_, _)
Flat(k, s) ==
    IF s = <<>> THEN <<>>
    ELSE <<Head(s)>> \o Flat(k, k[Head(s)]) \o Flat(k, Tail(s))

\* The descendants of root in document order: what root.querySelectorAll
\* ranges over (root itself is not among them).
Sub(k, root) == Flat(k, k[root])

InDoc(k, n) == n \in Range(Sub(k, Body))

\* node.textContent: the text nodes below it, concatenated in document order.
RECURSIVE TextOf(_, _)
TextOf(k, s) ==
    IF s = <<>> THEN <<>>
    ELSE text[Head(s)] \o TextOf(k, k[Head(s)]) \o TextOf(k, Tail(s))

TextContent(k, n) == TextOf(k, <<n>>)

IsSpan(n) == kind[n] = "span"                     \* matches span.cbg1qdk
IsDiv(n) == kind[n] \in {"div", "blk", "view"}    \* matches div
IsBlk(n) == kind[n] = "blk"                       \* matches div.deu1fhf
IsView(n) == kind[n] = "view"                     \* matches .view-diagrams
IsSvg(n) == kind[n] = "svg"    \* svg with a use[href*="/api/v2/diagrams/instruments/"]
IsBtn(n) == kind[n] = "btn"    \* matches button, [role="button"], a

\* root.querySelectorAll('span.cbg1qdk')
SpansIn(k, root) == SelectSeq(Sub(k, root), IsSpan)

\* el.closest('div.deu1fhf'), el.closest('div'): el or its nearest ancestor.
RECURSIVE ClosestBlk(_, _)
ClosestBlk(k, n) ==
    IF n = Null \/ n = Body THEN Null
    ELSE IF IsBlk(n) THEN n ELSE ClosestBlk(k, Parent(k, n))

RECURSIVE ClosestDiv(_, _)
ClosestDiv(k, n) ==
    IF n = Null \/ n = Body THEN Null
    ELSE IF IsDiv(n) THEN n ELSE ClosestDiv(k, Parent(k, n))

\* node.remove()
Remove(k, n) == [p \in DOMAIN k |-> SelectSeq(k[p], LAMBDA x : x # n)]

\* parent.appendChild(n): n leaves its old place and becomes the last child.
AppendChild(k, p, n) == [Remove(k, n) EXCEPT ![p] = Append(@, n)]

-----------------------------------------------------------------------------
(* purge *)

isTargetSpan(k, span) ==
    /\ span # Null
    /\ IsSpan(span)
    /\ normalize(TextContent(k, span)) \in blockedChords

isChordBlock(k, el) == \E d \in Range(Sub(k, el)) : IsSvg(d)

chordContainerFor(k, span) ==
    IF ClosestBlk(k, span) # Null
    THEN ClosestBlk(k, span)
    ELSE ClosestDiv(k, span)

\* One turn of purge's forEach, and of the observer's branch for a span
\* that was added directly.
PurgeSpan(k, span) ==
    IF ~isTargetSpan(k, span) THEN k
    ELSE LET container == chordContainerFor(k, span)
         IN  IF container # Null /\ isChordBlock(k, container)
             THEN Remove(k, container)
             ELSE k

RECURSIVE PurgeLoop(_, _)
PurgeLoop(k, spans) ==
    IF spans = <<>> THEN k
    ELSE PurgeLoop(PurgeSpan(k, Head(spans)), Tail(spans))

\* purge with a loop that a span off the blocklist ends (a break where the
\* callback returns).
RECURSIVE PurgeLoopBreak(_, _)
PurgeLoopBreak(k, spans) ==
    IF spans = <<>> \/ ~isTargetSpan(k, Head(spans)) THEN k
    ELSE PurgeLoopBreak(PurgeSpan(k, Head(spans)), Tail(spans))

purgeBreak(k, root) == PurgeLoopBreak(k, SpansIn(k, root))

\* The NodeList is static: it is taken before the first removal.
purge(k, root) == PurgeLoop(k, SpansIn(k, root))

-----------------------------------------------------------------------------
(* Sorting *)

\* The three symbol replacements of chordKey, one character at a time.
KeyChar(c) ==
    CASE c = "sub_m" -> "m" [] c = "flat" -> "b" [] c = "sharp" -> "#"
      [] OTHER -> c

chordKey(k, el) ==
    LET spans == SpansIn(k, el)
        t == IF spans = <<>> THEN <<>>
             ELSE normalize(TextContent(k, Head(spans)))
        noSpace == SelectSeq(t, LAMBDA c : ~IsSpace(c))
    IN  [i \in 1 .. Len(noSpace) |-> KeyChar(noSpace[i])]

\* The collator's primary weight of a character under sensitivity 'base':
\* case and accents do not count, a combining accent weighs nothing, and
\* punctuation sorts before digits, digits before letters.
Weight(c) ==
    LET l == Lower(c)
    IN  CASE l = "acute" -> 0
          [] l = "#" -> 1
          [] l = "7" -> 2
          [] l = "a" -> 10 [] l = "b" -> 11 [] l = "c" -> 12 [] l = "d" -> 13
          [] l = "e" -> 14 [] l = "Eacute" -> 14
          [] l = "f" -> 15 [] l = "g" -> 16 [] l = "m" -> 22
          [] OTHER -> 30

Primary(s) ==
    LET w == [i \in 1 .. Len(s) |-> Weight(s[i])]
    IN  SelectSeq(w, LAMBDA x : x # 0)

RECURSIVE LexCompare(_, _)
LexCompare(a, b) ==
    IF a = <<>> THEN (IF b = <<>> THEN 0 ELSE 0 - 1)
    ELSE IF b = <<>> THEN 1
    ELSE IF Head(a) < Head(b) THEN 0 - 1
    ELSE IF Head(a) > Head(b) THEN 1
    ELSE LexCompare(Tail(a), Tail(b))

\* a.localeCompare(b, undefined, { sensitivity: 'base' })
localeCompare(a, b) == LexCompare(Primary(a), Primary(b))

\* The insertion with the comparator's arguments swapped.
RECURSIVE InsertSortedSwapped(_, _, _)
InsertSortedSwapped(k, sorted, el) ==
    IF sorted = <<>> THEN <<el>>
    ELSE IF localeCompare(chordKey(k, Head(sorted)), chordKey(k, el)) < 0
         THEN <<el>> \o sorted
         ELSE <<Head(sorted)>> \o InsertSortedSwapped(k, Tail(sorted), el)

\* Array.prototype.sort is stable: an element goes behind the ones it
\* does not precede.
RECURSIVE InsertSorted(_, _, _)
InsertSorted(k, sorted, el) ==
    IF sorted = <<>> THEN <<el>>
    ELSE IF localeCompare(chordKey(k, el), chordKey(k, Head(sorted))) < 0
         THEN <<el>> \o sorted
         ELSE <<Head(sorted)>> \o InsertSorted(k, Tail(sorted), el)

RECURSIVE SortList(_, _, _)
SortList(k, sorted, list) ==
    IF list = <<>> THEN sorted
    ELSE SortList(k, InsertSorted(k, sorted, Head(list)), Tail(list))

\* [...root.querySelectorAll('div.deu1fhf')].filter(isChordBlock)
ChordBlocks(k, root) ==
    SelectSeq(Sub(k, root), LAMBDA n : IsBlk(n) /\ isChordBlock(k, n))

\* The keys of byParent in insertion order: each parent once, at the
\* place of its first block.
RECURSIVE ParentsOf(_, _, _)
ParentsOf(k, blocks, seen) ==
    IF blocks = <<>> THEN seen
    ELSE LET p == Parent(k, Head(blocks))
         IN  ParentsOf(k, Tail(blocks),
                       IF p = Null \/ p \in Range(seen) THEN seen
                       ELSE Append(seen, p))

RECURSIVE AppendAll(_, _, _)
AppendAll(k, parent, list) ==
    IF list = <<>> THEN k
    ELSE AppendAll(AppendChild(k, parent, Head(list)), parent, Tail(list))

\* The second loop of sortChordBlocks.  byParent was filled from the tree k0
\* the function was called on; a group is sorted by the keys its blocks have
\* when its turn comes, and every block of it is re-appended.  The result is
\* the tree and the elements appended, in order.
RECURSIVE SortGroups(_, _, _, _, _)
SortGroups(k0, blocks, parents, k, added) ==
    IF parents = <<>> THEN [kids |-> k, added |-> added]
    ELSE LET parent == Head(parents)
             list == SelectSeq(blocks, LAMBDA b : Parent(k0, b) = parent)
             sorted == SortList(k, <<>>, list)
         IN  SortGroups(k0, blocks, Tail(parents),
                        AppendAll(k, parent, sorted), added \o sorted)

sortChordBlocks(k, root) ==
    LET blocks == ChordBlocks(k, root)
    IN  IF Len(blocks) < 2 THEN [kids |-> k, added |-> <<>>]
        ELSE SortGroups(k, blocks, ParentsOf(k, blocks, <<>>), k, <<>>)

-----------------------------------------------------------------------------
(* The Summary toggle *)

\* onDiagramsPage without its query.
onDiagramsPageAlways(k) == TRUE

onDiagramsPage(k) == \E n \in Nodes : IsView(n) /\ InDoc(k, n)

\* The loop without the test of dataset._clickedSummary.
RECURSIVE ClickLoopNoMark(_, _, _)
ClickLoopNoMark(k, candidates, m) ==
    IF candidates = <<>> THEN <<>>
    ELSE LET el == Head(candidates)
             txt == normalize(TextContent(k, el))
         IN  IF txt # <<>> /\ IsSummaryText(txt)
             THEN <<el>>
             ELSE ClickLoopNoMark(k, Tail(candidates), m)

\* The loop with the break behind the if: the first element labelled
\* Summary ends it, clicked or not.
RECURSIVE ClickLoopBreak(_, _, _)
ClickLoopBreak(k, candidates, m) ==
    IF candidates = <<>> THEN <<>>
    ELSE LET el == Head(candidates)
             txt == normalize(TextContent(k, el))
         IN  IF txt # <<>> /\ IsSummaryText(txt)
             THEN (IF el \notin m THEN <<el>> ELSE <<>>)
             ELSE ClickLoopBreak(k, Tail(candidates), m)

\* The loop of clickSummaryIfPresent over the candidates: the elements it
\* marks and clicks, in order.  It stops at the first.
RECURSIVE ClickLoop(_, _, _)
ClickLoop(k, candidates, m) ==
    IF candidates = <<>> THEN <<>>
    ELSE LET el == Head(candidates)
             txt == normalize(TextContent(k, el))
         IN  IF txt # <<>> /\ IsSummaryText(txt) /\ el \notin m
             THEN <<el>>
             ELSE ClickLoop(k, Tail(candidates), m)

\* The elements one call of clickSummaryIfPresent(root) clicks, given the
\* marked elements m.
clickSummaryIfPresent(k, root, m) ==
    IF ~onDiagramsPage(k) THEN <<>>
    ELSE ClickLoop(k, SelectSeq(Sub(k, root), IsBtn), m)

-----------------------------------------------------------------------------
(* The pages the script is started on *)

IsContainer(u, p) == p = Body \/ u[p] \in {"div", "blk", "view"}

\* Any place: detached (Null), or a child of the body or of an earlier
\* container element.
AnyPlace(u) ==
    [n \in 1 .. Len(u) |-> {Null} \cup {p \in 0 .. n - 1 : IsContainer(u, p)}]

\* The sequences that take their i-th element from sets[i].
RECURSIVE Choices(_)
Choices(sets) ==
    IF sets = <<>> THEN {<<>>}
    ELSE {<<h>> \o t : h \in Head(sets), t \in Choices(Tail(sets))}

\* The forests over the elements of a page, as parent functions, that put
\* every element at one of its places.
Shapes(places) == Choices(places)

\* The children of p under par, in document order.
RECURSIVE KidsFrom(_, _, _)
KidsFrom(par, p, n) ==
    IF n > Len(par) THEN <<>>
    ELSE (IF par[n] = p THEN <<n>> ELSE <<>>) \o KidsFrom(par, p, n + 1)

KidsOf(par) == [p \in 0 .. Len(par) |-> KidsFrom(par, p, 1)]

\* The texts a chord label and a toggle can carry.
SpanTexts == {<<" ", "A", "flat">>, <<"F", "sharp">>}
BtnTexts == {<<" ", "S", "U", "M", "M", "A", "R", "Y", " ">>,
             <<"A", "n", "i", "m", "a", "t", "e", "d">>}
SortTexts == {<<"C", "sub_m">>, <<" ", "c", " ", "7">>, <<"E", "acute">>,
              <<"e", "flat">>}

Texts(u, spanTexts, btnTexts) ==
    Choices([n \in 1 .. Len(u) |->
                CASE u[n] = "span" -> spanTexts
                  [] u[n] = "btn" -> btnTexts
                  [] OTHER -> {<<>>}])

\* Element sets.  A wrapper div, a chord block, a label and a diagram; a
\* Diagrams view, a wrapper and two toggles.
WrapPage == <<"div", "blk", "span", "svg">>
SummaryPage == <<"view", "div", "btn", "btn">>
\* A wrapper (a div, or a div.deu1fhf) around a chord block with two labels.
ChordPage == <<"div", "blk", "span", "svg", "span">>
NestedPage == <<"blk", "blk", "span", "svg", "span">>
\* Two chord blocks, each with its diagram and its label, an outer block
\* that may hold either, and a label of its own.
SortPage == <<"blk", "blk", "svg", "span", "span", "blk", "svg", "span">>
SortPlaces ==
    <<{Body}, {Body, 1}, {2}, {2}, {1, 2}, {Body, 1}, {6}, {6}>>

Step(op, nodes, calls, removed, queue) ==
    [op |-> op, nodes |-> nodes, calls |-> calls, removed |-> removed,
     queue |-> queue]

\* The elements of the document k that are not in the document k1.
Gone(k, k1) == {n \in Range(Sub(k, Body)) : ~InDoc(k1, n)}

InitOn(u, shapes, spanTexts, btnTexts, states) ==
    /\ kind = u
    /\ text \in Texts(u, spanTexts, btnTexts)
    /\ \E par \in shapes : kids = KidsOf(par)
    /\ readyState \in states
    /\ pc = "script"
    /\ sortPending = FALSE
    /\ timers = 0
    /\ records = <<>>
    /\ dt = 2000
    /\ clicks = [n \in 1 .. Len(u) |-> 0]
    /\ marked = {}
    /\ pageOps = 0
    /\ last = Step("none", <<>>, <<>>, {}, "none")

ReadyStates == {"loading", "complete"}

\* The script is injected at document-idle (@run-at), when the document is
\* no longer loading.
Init ==
    \E u \in {WrapPage, SummaryPage} :
        InitOn(u, Shapes(AnyPlace(u)), SpanTexts, BtnTexts, {"complete"})

\* An injection at any time, on the larger pages.

InitStatic ==
    \/ \E u \in {ChordPage, NestedPage} :
          InitOn(u, Shapes(AnyPlace(u)), SpanTexts, BtnTexts, ReadyStates)
    \/ InitOn(SortPage, Shapes(SortPlaces), SortTexts, BtnTexts,
              ReadyStates)

-----------------------------------------------------------------------------
(* The script *)

\* queueSort without the test of _sortPending.
queueSortNoGuard(pending, t) ==
    [pending |-> TRUE, timers |-> t + 1,
     found |-> IF pending THEN "pending" ELSE "idle"]

\* queueSort, as its effect on (_sortPending, outstanding timers).
queueSort(pending, t) ==
    IF pending THEN [pending |-> pending, timers |-> t, found |-> "pending"]
    ELSE [pending |-> TRUE, timers |-> t + 1, found |-> "idle"]

Click(cl, els) == [n \in DOMAIN cl |-> IF n \in Range(els) THEN cl[n] + 1 ELSE cl[n]]

\* start: purge, queueSort, clickSummaryIfPresent.
StartEffect ==
    LET k1 == purge(kids, Body)
        q == queueSort(sortPending, timers)
        c == clickSummaryIfPresent(k1, Body, marked)
    IN  /\ kids' = k1
        /\ sortPending' = q.pending
        /\ timers' = q.timers
        /\ marked' = marked \cup Range(c)
        /\ clicks' = Click(clicks, c)
        /\ last' = Step("start", <<>>, <<c>>, Gone(kids, k1), q.found)

\* The script body: start now or on DOMContentLoaded, then observe
\* document.body and request the first frame.
RunScript ==
    /\ pc = "script"
    /\ IF readyState = "loading"
       THEN /\ pc' = "loading"
            /\ last' = Step("script", <<>>, <<>>, {}, "none")
            /\ UNCHANGED <<kids, sortPending, timers, marked, clicks>>
       ELSE /\ pc' = "running"
            /\ StartEffect
    /\ UNCHANGED <<kind, text, readyState, records, dt, pageOps>>

\* The DOMContentLoaded listener.
DOMContentLoaded ==
    /\ pc = "loading"
    /\ records = <<>>
    /\ pc' = "running"
    /\ StartEffect
    /\ UNCHANGED <<kind, text, readyState, records, dt, pageOps>>

\* The setTimeout callback of queueSort.  appendChild queues a record with
\* the moved element among its addedNodes.
SortTimer ==
    /\ timers > 0
    /\ records = <<>>
    /\ LET r == sortChordBlocks(kids, Body)
       IN  /\ kids' = r.kids
           /\ records' = [i \in 1 .. Len(r.added) |->
                             [node |-> r.added[i], by |-> "script"]]
    /\ sortPending' = FALSE
    /\ timers' = timers - 1
    /\ last' = Step("sort", <<>>, <<>>, {}, "none")
    /\ UNCHANGED <<kind, text, readyState, pc, dt, clicks, marked, pageOps>>

\* The observer's work on one added node: [kids, touched, clicked].
ObserveNode(k, node, m) ==
    LET direct == IsSpan(node) /\ isTargetSpan(k, node)
        container == chordContainerFor(k, node)
        hit == direct /\ container # Null /\ isChordBlock(k, container)
        deeper == ~direct /\ SpansIn(k, node) # <<>>
        k1 == IF hit THEN Remove(k, container)
              ELSE IF deeper THEN purge(k, node)
              ELSE k
    IN  [kids |-> k1, touched |-> hit \/ deeper,
         clicked |-> clickSummaryIfPresent(k1, node, m)]

\* The observer's loops over the records: [kids, touched, marked, calls].
RECURSIVE ObserveAll(_, _)
ObserveAll(acc, recs) ==
    IF recs = <<>> THEN acc
    ELSE LET r == ObserveNode(acc.kids, Head(recs).node, acc.marked)
         IN  ObserveAll([kids |-> r.kids,
                         touched |-> acc.touched \/ r.touched,
                         marked |-> acc.marked \cup Range(r.clicked),
                         calls |-> Append(acc.calls, r.clicked)],
                        Tail(recs))

\* The MutationObserver callback: a microtask that takes every queued record.
MOCallback ==
    /\ records # <<>>
    /\ LET r == ObserveAll([kids |-> kids, touched |-> FALSE,
                            marked |-> marked, calls |-> <<>>], records)
           q == IF r.touched THEN queueSort(sortPending, timers)
                ELSE [pending |-> sortPending, timers |-> timers,
                      found |-> "none"]
       IN  /\ kids' = r.kids
           /\ marked' = r.marked
           /\ clicks' = [n \in DOMAIN clicks |->
                           clicks[n] + Cardinality({i \in 1 .. Len(r.calls) :
                                                      n \in Range(r.calls[i])})]
           /\ sortPending' = q.pending
           /\ timers' = q.timers
           /\ last' = Step("mo", [i \in 1 .. Len(records) |-> records[i].node],
                           r.calls, Gone(kids, r.kids), q.found)
    /\ records' = <<>>
    /\ UNCHANGED <<kind, text, readyState, pc, dt, pageOps>>

\* A frame of tick on which now - lastTick > 1500; on the other frames
\* tick changes nothing.
Tick ==
    /\ pc # "script"
    /\ records = <<>>
    /\ dt > TickPeriod
    /\ dt' = 0
    /\ LET c == clickSummaryIfPresent(kids, Body, marked)
           q == queueSort(sortPending, timers)
       IN  /\ marked' = marked \cup Range(c)
           /\ clicks' = Click(clicks, c)
           /\ sortPending' = q.pending
           /\ timers' = q.timers
           /\ last' = Step("tick", <<>>, <<c>>, {}, q.found)
    /\ UNCHANGED <<kind, text, kids, readyState, pc, records, pageOps>>

\* Two seconds pass between tasks.
AdvanceTime ==
    /\ pc # "script"
    /\ records = <<>>
    /\ dt = 0
    /\ dt' = 2000
    /\ UNCHANGED <<kind, text, kids, readyState, pc, sortPending, timers,
                   records, clicks, marked, pageOps, last>>

-----------------------------------------------------------------------------
(* The page *)

\* A page task may go on while only its own records are queued.
PageMayAct ==
    /\ pc # "script"
    /\ pageOps < MaxPageOps
    /\ Len(records) < MaxBatch
    /\ \A i \in 1 .. Len(records) : records[i].by = "page"

\* The page appends the detached element n, with what is below it, to p.
PageInsert(n, p) ==
    /\ PageMayAct
    /\ Parent(kids, n) = Null
    /\ IF p = Body THEN TRUE ELSE IsDiv(p) /\ InDoc(kids, p)
    /\ kids' = AppendChild(kids, p, n)
    /\ records' = Append(records, [node |-> n, by |-> "page"])
    /\ pageOps' = pageOps + 1
    /\ last' = Step("page", <<>>, <<>>, {}, "none")
    /\ UNCHANGED <<kind, text, readyState, pc, sortPending, timers, dt,
                   clicks, marked>>

\* The page removes the element n of the document; the record has no
\* addedNodes, and the observer's loop over them does nothing.
PageRemove(n) ==
    /\ PageMayAct
    /\ InDoc(kids, n)
    /\ kids' = Remove(kids, n)
    /\ pageOps' = pageOps + 1
    /\ last' = Step("page", <<>>, <<>>, {}, "none")
    /\ UNCHANGED <<kind, text, readyState, pc, sortPending, timers, records,
                   dt, clicks, marked>>

Next ==
    \/ RunScript
    \/ SortTimer
    \/ MOCallback
    \/ Tick
    \/ AdvanceTime
    \/ \E n \in Nodes : \E p \in {Body} \cup Nodes : PageInsert(n, p)
    \/ \E n \in Nodes : PageRemove(n)

Spec == Init /\ [][Next]_vars

\* The steps of RunScript, MOCallback and Tick, told by the variable only
\* they set this way.
ScriptRuns == pc = "script" /\ pc' \in {"loading", "running"}
ObserverRuns == records # <<>> /\ records' = <<>>
FrameDue ==
    /\ pc # "script"
    /\ records = <<>>
    /\ dt > TickPeriod
    /\ dt' = 0

\* The script body runs, a queued microtask runs, time passes and the
\* browser keeps calling the requested frame.
FairSpec ==
    /\ Spec
    /\ WF_pc(ScriptRuns)
    /\ WF_records(ObserverRuns)
    /\ WF_dt(AdvanceTime)
    /\ WF_dt(FrameDue)

\* The script on a page that changes nothing on its own.
NextStatic ==
    \/ RunScript
    \/ DOMContentLoaded
    \/ SortTimer
    \/ MOCallback
    \/ Tick
    \/ AdvanceTime

StaticSpec == InitStatic /\ [][NextStatic]_vars

-----------------------------------------------------------------------------
(* Properties *)

ScriptOps == {"start", "mo", "tick", "sort"}

Doc == Range(Sub(kids, Body))

\* The text of a label is on the blocklist.
Blocked(span) == normalize(TextContent(kids, span)) \in blockedChordsList

\* A div.deu1fhf that contains a diagram svg.
IsChordBlockEl(b) ==
    IsBlk(b) /\ \E d \in Range(Sub(kids, b)) : IsSvg(d)

C2_OnlyKnownRemoved ==
    last.op \in ScriptOps =>
        \A b \in last.removed :
            (IsChordBlockEl(b) /\ SpansIn(kids, b) # <<>>) =>
                \E sp \in Range(Sub(kids, b)) : IsSpan(sp) /\ Blocked(sp)

\* The chord blocks among the children of p, in document order.
BlockKids(p) == SelectSeq(kids[p], IsChordBlockEl)

\* The comparison C3 names: chordKey against chordKey, case-insensitively.
KeyLeq(a, b) == localeCompare(chordKey(kids, a), chordKey(kids, b)) <= 0

SortedKids(p) ==
    \A i \in 1 .. Len(BlockKids(p)) - 1 :
        KeyLeq(BlockKids(p)[i], BlockKids(p)[i + 1])

HasTwoBlocks == Cardinality({b \in Doc : IsChordBlockEl(b)}) >= 2

\* C3 as stated: immediately after sortChordBlocks(document) returns on a
\* document with at least two chord blocks, the chord blocks among the
\* children of every parent are in non-decreasing order of chordKey.
C3_AllSorted ==
    (last.op = "sort" /\ HasTwoBlocks) =>
        \A p \in {Body} \cup Doc : SortedKids(p)

\* No chord block among the children of p contains another chord block.
FlatKids(p) ==
    \A i \in 1 .. Len(BlockKids(p)) :
        ~\E d \in Range(Sub(kids, BlockKids(p)[i])) : IsChordBlockEl(d)

\* C3 amended: ... the chord blocks among the children of a parent are in
\* non-decreasing order of chordKey when none of them contains another
\* chord block.
C3_FlatSorted ==
    (last.op = "sort" /\ HasTwoBlocks) =>
        \A p \in {Body} \cup Doc : FlatKids(p) => SortedKids(p)

\* sortChordBlocks has just re-appended two sibling chord blocks with
\* different keys, neither of which contains a chord block, and the one the
\* page had put first now comes second.
C3_Witness ==
    /\ last.op = "sort"
    /\ \E p \in {Body} \cup Doc :
          /\ FlatKids(p)
          /\ Len(BlockKids(p)) = 2
          /\ ~KeyLeq(BlockKids(p)[2], BlockKids(p)[1])
          /\ BlockKids(p)[2] < BlockKids(p)[1]

\* C9: an observer callback on a page that changes nothing on its own, whose
\* records are therefore the re-appends of sortChordBlocks, does not call
\* queueSort.
C9_NoSelfTrigger == last.op = "mo" => last.queue = "none"

\* sortChordBlocks has re-appended chord blocks and the observer, handed
\* those elements, has run.
C9_Reappended ==
    /\ last.op = "mo"
    /\ last.nodes # <<>>
    /\ \A i \in 1 .. Len(last.nodes) : IsChordBlockEl(last.nodes[i])

\* C4: when the observer has run for every insertion and the polling tick
\* has fired, no chord block of the document is the nearest div.deu1fhf
\* ancestor of a label on the blocklist.
C4_FilterReapplied ==
    (last.op = "tick" /\ pc = "running" /\ records = <<>>) =>
        ~\E sp \in Doc : /\ IsSpan(sp) /\ Blocked(sp)
                          /\ ClosestBlk(kids, sp) # Null
                          /\ IsChordBlockEl(ClosestBlk(kids, sp))

IsSummaryEl(b) ==
    IsBtn(b) /\ IsSummaryText(normalize(TextContent(kids, b)))

\* An unclicked Summary toggle is in the document of a Diagrams page on
\* which the script runs.
Waiting(n) ==
    /\ pc # "script"
    /\ n \in Nodes
    /\ n \in Doc
    /\ IsSummaryEl(n)
    /\ n \notin marked
    /\ onDiagramsPage(kids)

Settled(n) == clicks[n] > 0 \/ n \notin Doc \/ ~onDiagramsPage(kids)

\* C5: an unclicked Summary toggle in the document of a Diagrams page is
\* clicked in the end, unless it or the Diagrams view leaves the document.
C5_EventuallyClicked ==
    \A n \in 1 .. Len(SummaryPage) : Waiting(n) ~> Settled(n)

\* A polling tick has clicked the second toggle, the first having been
\* clicked before.
C5_Witness ==
    /\ last.op = "tick"
    /\ \E n \in Doc : /\ last.calls = <<<<n>>>>
                       /\ \E m \in marked : m # n /\ m \in Doc

\* The document has no span.cbg1qdk, no div.deu1fhf and no .view-diagrams.
NoTargets == \A n \in Doc : kind[n] \notin {"span", "blk", "view"}

DocTree == [n \in {Body} \cup Doc |-> kids[n]]

\* C6: on a document without span.cbg1qdk, div.deu1fhf and .view-diagrams,
\* a step of start, of the observer, of the tick or of the debounced sort
\* leaves the document tree as it was and clicks nothing.
C6_SilentNoOp ==
    [][(NoTargets /\ last'.op \in ScriptOps)
          => (DocTree' = DocTree /\ clicks' = clicks /\ marked' = marked)]_vars

\* The observer has run on an inserted wrapper that holds a Summary toggle,
\* in a document without targets.
C6_Witness ==
    /\ last.op = "mo"
    /\ NoTargets
    /\ \E i \in 1 .. Len(last.nodes) :
          \E b \in Range(Sub(kids, last.nodes[i])) : b \in Doc /\ IsSummaryEl(b)

\* C7: at most one sort timer is outstanding, and _sortPending is true
\* exactly when one is.
C7_Debounced == timers <= 1 /\ (sortPending <=> timers = 1)

\* queueSort was called while a timer was pending, and one timer is
\* outstanding.
C7_Witness == last.queue = "pending" /\ timers = 1

\* C8: when the observer has run on an inserted node that is, or holds, a
\* Summary toggle of a Diagrams page, a Summary toggle at or below that node
\* has been clicked.
C8_ClickedOnInsert ==
    (last.op = "mo" /\ onDiagramsPage(kids)) =>
        \A i \in 1 .. Len(last.nodes) :
            LET node == last.nodes[i]
                here == {b \in {node} \cup Range(Sub(kids, node)) :
                            IsSummaryEl(b)}
            IN  (node \in Doc /\ here # {}) => \E b \in here : b \in marked

\* C10: the script clicks no element twice, and no call of
\* clickSummaryIfPresent clicks more than one element.
C10_AtMostOnce ==
    /\ \A n \in Nodes : clicks[n] <= 1
    /\ \A i \in 1 .. Len(last.calls) : Len(last.calls[i]) <= 1

\* A polling tick has passed over a toggle clicked before, with no other
\* toggle left to click.
C10_Witness ==
    /\ last.op = "tick"
    /\ last.calls = <<<<>>>>
    /\ onDiagramsPage(kids)
    /\ \E n \in Doc : IsSummaryEl(n) /\ clicks[n] = 1

=============================================================================
